---- MODULE Spec2Model ----
(***************************************************************************)
(* PYJ-POS: the order lifecycle and the multi-client synchronisation of   *)
(* the point-of-sale application.  Several clients (AppContent instances) *)
(* run against one shared store (the Supabase tables products, sales and  *)
(* sale_items).  Every await of a handler is a separate step, so that the *)
(* store operations of different clients interleave.                      *)
(***************************************************************************)
EXTENDS Integers, Sequences, FiniteSets, TLC

\* ------------------------------------------------------------------ bounds
\* rows the store ever inserts into sales (ids are never reused)
MaxSales == 3
\* largest quantity of one cart line
MaxQty == 2
\* stock of every product in the initial catalog
InitStock == 2
\* change-feed events that may wait for one client
MaxFeed == 2
\* sales created while the order board is observed
BoardSales == 2
\* history resets of one run
MaxResets == 1
\* largest number typed into the quantity field of a cart line
MaxTyped == 3
\* the clock stops at this time (every login and logout marker takes one tick)
MaxTime == 4
\* failed store requests in one run
MaxFaults == 2
\* sales created while two clients follow the feed
NotesSales == 1

Clients == {"c1", "c2"}
\* product ids (uuids in the store); an id is a sequence of string pieces so
\* that startsWith can look at its prefix
Products == {<<"p1">>}
\* the names a product can be given in the product form (free text)
ProductNames == {"Cookie", "Manual Sale"}
\* the name of every product of the initial catalog
InitialName == "Cookie"
ManualAmounts == {3}
PaymentMethods == {"Cash"}
UserNotes == {"null"}
AdminNotes == {"n1"}
Null == "null"

VARIABLES
    products,        \* store table products: id -> [name, price, stock]
    sales,           \* store table sales: a set of rows
    sale_items,      \* store table sale_items: rows in insertion order
    nextId,          \* the store's generator of sale ids and timestamps
    pc,              \* per client: the await its running handler is suspended at
    call,            \* per client: the locals of its running handler
    clientProducts,  \* per client: React state `products`
    clientSales,     \* per client: React state `sales`
    feed,            \* per client: sales change-feed events not yet handled
    refetch,         \* per client: a products change event waits to be handled
    pendingIns,      \* per client: INSERT handlers awaiting their sale_items fetch
    hist,            \* history of the run (observation only)
    cart,            \* per client: PosView state `cartItems`
    auth,            \* sessions, the app_config logout marker and the logout polls
    pos              \* per client: PosView state of the checkout (payment modal,
                     \* isProcessingPayment, completedSale, userNotes)

vars == <<products, sales, sale_items, nextId, pc, call,
          clientProducts, clientSales, feed, refetch, pendingIns, hist,
          cart, auth, pos>>

\* ----------------------------------------------------------------- helpers
Price(p) == IF p = <<"p1">> THEN 2 ELSE 3

\* String.prototype.startsWith on an id
startsWith(id, prefix) == Len(id) >= 1 /\ id[1] = prefix

ManualId == <<"manual-", "now">>

RECURSIVE SumTotal(_)
\* cartItems.reduce((sum, item) => sum + item.price * item.quantity, 0)
SumTotal(items) ==
    IF items = <<>> THEN 0
    ELSE SumTotal(SubSeq(items, 1, Len(items) - 1))
         + items[Len(items)].price * items[Len(items)].quantity

\* .order('order_number', { ascending: false }).limit(1).single():
\* the rows returned (none when the table is empty: error PGRST116)
lastSale(S) ==
    IF S = {} THEN {}
    ELSE {CHOOSE s \in S : \A t \in S : t.order_number <= s.order_number}

\* an allocator that leaves a gap after the maximum
nextOrderNumber_gap(last) ==
    (IF last = {} THEN 0 ELSE (CHOOSE s \in last : TRUE).order_number) + 2

\* (lastSale?.order_number || 0) + 1
nextOrderNumber(last) ==
    (IF last = {} THEN 0 ELSE (CHOOSE s \in last : TRUE).order_number) + 1

\* saleData.items[0]?.name === 'Manual Sale' ? 'Completed' : 'Pending'
saleStatus(items) ==
    IF Len(items) >= 1 /\ items[1].name = "Manual Sale" THEN "Completed" ELSE "Pending"

\* the store's uniqueness constraint on sales.order_number
OrderNumberConflict(n) == \E s \in sales : s.order_number = n

\* an event is pushed to every subscribed client; the feed gives no delivery
\* guarantee, and a client that already has MaxFeed events waiting misses it
Broadcast(f, ev) ==
    [c \in Clients |-> IF Len(f[c]) < MaxFeed THEN Append(f[c], ev) ELSE f[c]]

NoCall == [op |-> "none"]

Roles == {"user", "admin"}

\* the cart lines a client can check out: distinct catalog products in any
\* order, each with a quantity (PosView keeps one line per product id)
ProductOrders ==
    {o \in UNION {[1..n -> Products] : n \in 1..Cardinality(Products)} :
        \A i, j \in DOMAIN o : i # j => o[i] # o[j]}

\* cartItems.map(({ stock, categories, category_id, ...item }) => item)
CartItems(c, o, q) ==
    [i \in DOMAIN o |-> [id |-> o[i], name |-> clientProducts[c][o[i]].name,
                         price |-> clientProducts[c][o[i]].price, quantity |-> q[i]]]

\* PosView.handleConfirmPayment: the saleData handed to onAddSale
CartSaleData(c) ==
    {[items |-> CartItems(c, o, q), total |-> SumTotal(CartItems(c, o, q)),
      paymentMethod |-> pm, userNotes |-> n] :
        o \in ProductOrders, q \in [1..Cardinality(Products) -> 1..MaxQty],
        pm \in PaymentMethods, n \in UserNotes}

\* PosView.handleConfirmManualSale: the saleData handed to onAddSale
ManualSaleData ==
    {[items |-> <<[id |-> ManualId, name |-> "Manual Sale", price |-> a, quantity |-> 1]>>,
      total |-> a, paymentMethod |-> pm, userNotes |-> Null] :
        a \in ManualAmounts, pm \in PaymentMethods}

\* handleAddSale calls that have read the order number and not yet inserted
Allocating == {c \in Clients : pc[c] = "insert"}

\* rows of sale_items of one sale, as SaleItems
ItemsOf(id) ==
    LET rows == SelectSeq(sale_items, LAMBDA r : r.sale_id = id)
    IN  [i \in DOMAIN rows |-> [id |-> rows[i].product_id, name |-> rows[i].name,
                                price |-> rows[i].price, quantity |-> rows[i].quantity]]

\* the stock updates of one sale, computed from the products of the closure;
\* toast: addToast(`${product.name} is now out of stock!`) was called for it
stockUpdates(items, prods) ==
    {[id |-> items[i].id,
      quantity |-> items[i].quantity,
      stock |-> IF items[i].id \in DOMAIN prods
                THEN prods[items[i].id].stock - items[i].quantity ELSE 0,
      toast |-> /\ items[i].id \in DOMAIN prods
                /\ prods[items[i].id].stock > 0
                /\ prods[items[i].id].stock - items[i].quantity <= 0] :
        i \in {j \in DOMAIN items : ~startsWith(items[j].id, "manual-")}}

\* PosView.handleConfirmPayment after onAddSale: setCartItems([]) when a sale
\* came back (handleConfirmManualSale does not look at the result)
CartAfter(c, newSale) ==
    IF newSale /\ call[c].kind = "cart" THEN [cart EXCEPT ![c] = <<>>] ELSE cart

\* the userNotes of PosView when no note is entered: ''
NoNotes == ""
\* the notes the operator can enter for an order
PosNotes == {"extra"}

\* a handleConfirmPayment that leaves isProcessingPayment set on a failure
PosAfter_busy(c, newSale) ==
    IF ~pos[c].processing THEN pos
    ELSE [pos EXCEPT ![c] =
            IF newSale
            THEN [@ EXCEPT !.completed = TRUE, !.userNotes = NoNotes, !.processing = FALSE]
            ELSE [@ EXCEPT !.modal = FALSE]]

\* PosView.handleConfirmPayment after the await of onAddSale, when it made
\* the call: setCompletedSale(newSale), setUserNotes('') when a sale came
\* back, setPaymentModalOpen(false) when none did or the call threw; finally
\* setIsProcessingPayment(false)
PosAfter(c, newSale) ==
    IF ~pos[c].processing THEN pos
    ELSE [pos EXCEPT ![c] =
            IF newSale
            THEN [@ EXCEPT !.completed = TRUE, !.userNotes = NoNotes, !.processing = FALSE]
            ELSE [@ EXCEPT !.modal = FALSE, !.processing = FALSE]]

\* the stock updates of a running handleAddSale that are not yet applied
Todo(c) == IF pc[c] = "stock" THEN call[c].todo ELSE {}

\* history: a write of another client to products while a call is running
NoteStockWrite(h, c) ==
    [h EXCEPT !.stockChanged = [d \in Clients |-> IF d = c THEN @[d] ELSE pc[d] # "idle"]]

\* history: the clients that miss an event pushed when the feeds are f
NoteMissed(h, f) ==
    [h EXCEPT !.missed = @ \cup {c \in Clients : Len(f[c]) >= MaxFeed}]

\* history: the call of client c has returned
NoteReturn(h, c) ==
    [h EXCEPT !.readNumbers[c] = {}, !.stockChanged[c] = FALSE]

\* history: a store request of the call of client c came back with an error;
\* logged tells whether the handler wrote it to console.error, toast whether
\* it called addToast (the handlers that do one do the other)
NoteFailure(h, c, step, logged) ==
    [h EXCEPT !.failed = Append(@, [client |-> c, step |-> step,
                                    logged |-> logged, toast |-> logged])]

\* history: the rows written by handleUpdateSaleNotes, as the store pushes
\* them in the UPDATE events of these writes (hist.applied: a client has
\* handled such an event)
NoteNotes(h, rows) == [h EXCEPT !.noted = @ \cup rows]

\* { ...sale, items }
WithItems(row, items) ==
    [x \in DOMAIN row \cup {"items"} |-> IF x = "items" THEN items ELSE row[x]]

RECURSIVE InsertDesc(_, _)
InsertDesc(s, sorted) ==
    IF sorted = <<>> THEN <<s>>
    ELSE IF sorted[1].timestamp >= s.timestamp
         THEN <<sorted[1]>> \o InsertDesc(s, Tail(sorted))
         ELSE <<s>> \o sorted

RECURSIVE sortDesc(_)
\* prev.sort((a, b) => new Date(b.timestamp).getTime() - new Date(a.timestamp).getTime())
sortDesc(list) ==
    IF list = <<>> THEN <<>>
    ELSE InsertDesc(list[Len(list)], sortDesc(SubSeq(list, 1, Len(list) - 1)))

RECURSIVE orderDesc(_)
\* .order('timestamp', { ascending: false }) over a set of rows
orderDesc(S) ==
    IF S = {} THEN <<>>
    ELSE LET top == CHOOSE s \in S : \A t \in S : t.timestamp <= s.timestamp
         IN  <<top>> \o orderDesc(S \ {top})

\* an update that writes the whole row back with the default status
UpdateSale_reset(S, id, field, value) ==
    {IF s.id = id THEN [[s EXCEPT !.status = "Pending"] EXCEPT ![field] = value]
     ELSE s : s \in S}

\* setSales(prev => [newSaleWithItems, ...prev.sort(by timestamp, descending)])
insertSale(prev, newSaleWithItems) == <<newSaleWithItems>> \o sortDesc(prev)

\* setSales(prev => prev.map(sale => sale.id === updatedSaleRecord.id
\*    ? { ...sale, status: ..., admin_notes: ... } : sale))
patchSale(prev, updatedSaleRecord) ==
    [i \in DOMAIN prev |->
        IF prev[i].id = updatedSaleRecord.id
        THEN [prev[i] EXCEPT !.status = updatedSaleRecord.status,
                             !.admin_notes = updatedSaleRecord.admin_notes]
        ELSE prev[i]]

\* UPDATE sales SET field = value WHERE id = saleId, on the rows S
UpdateSale(S, id, field, value) ==
    {IF s.id = id THEN [s EXCEPT ![field] = value] ELSE s : s \in S}

\* the events the store pushes for an UPDATE of the sales rows with this id
UpdateEvents(f, S, id) ==
    IF \E s \in S : s.id = id
    THEN Broadcast(f, [table |-> "sales", type |-> "UPDATE",
                       new |-> CHOOSE s \in S : s.id = id])
    ELSE f

\* ------------------------------------------------------------ initial state
Init ==
    /\ products = [p \in Products |->
                      [name |-> InitialName, price |-> Price(p), stock |-> InitStock]]
    /\ sales = {}
    /\ sale_items = <<>>
    /\ nextId = 1
    /\ pc = [c \in Clients |-> "idle"]
    /\ call = [c \in Clients |-> NoCall]
    /\ clientProducts = [c \in Clients |-> products]
    /\ clientSales = [c \in Clients |-> <<>>]
    /\ feed = [c \in Clients |-> <<>>]
    /\ refetch = [c \in Clients |-> FALSE]
    /\ pendingIns = [c \in Clients |-> {}]
    /\ cart = [c \in Clients |-> <<>>]
    /\ pos = [c \in Clients |-> [modal |-> FALSE, processing |-> FALSE,
                                 completed |-> FALSE, userNotes |-> NoNotes]]
    /\ auth = [now |-> 1, marker |-> 0, markerBy |-> Null,
               session |-> [c \in Clients |-> {[role |-> "admin", loginTimestamp |-> 0]}],
               poll |-> [c \in Clients |-> {}],
               rpc |-> [c \in Clients |-> {}],
               notice |-> [c \in Clients |-> FALSE],
               view |-> [c \in Clients |-> "pos"],
               login |-> [c \in Clients |-> FALSE]]
    /\ hist = [resets |-> 0, lost |-> FALSE, missed |-> {}, failed |-> <<>>,
               noted |-> {}, applied |-> FALSE,
               readNumbers |-> [c \in Clients |-> {}],
               stockChanged |-> [c \in Clients |-> FALSE]]

\* ------------------------------------------------------------ handleAddSale
\* await supabase.from('sales').select('order_number')...single()
handleAddSale_read(c, saleData) ==
    /\ pc[c] = "idle"
    /\ nextId + Cardinality(Allocating) <= MaxSales
    /\ pc' = [pc EXCEPT ![c] = "insert"]
    /\ call' = [call EXCEPT ![c] =
                  [op |-> "addSale", saleData |-> saleData,
                   nextOrderNumber |-> nextOrderNumber(lastSale(sales)),
                   products |-> clientProducts[c], saleId |-> 0, todo |-> {},
                   fresh |-> clientProducts[c] = products,
                   kind |-> IF saleData \in ManualSaleData THEN "manual" ELSE "cart"]]
    /\ hist' = [hist EXCEPT !.readNumbers[c] = {s.order_number : s \in sales}]
    /\ UNCHANGED <<products, sales, sale_items, nextId,
                   clientProducts, clientSales, feed, refetch, pendingIns>>
    /\ UNCHANGED <<cart, auth>>

\* return undefined / return { id: newSaleData.id, ... }
Return(c, value) ==
    /\ pc' = [pc EXCEPT ![c] = "idle"]
    /\ call' = [call EXCEPT ![c] = NoCall]
    /\ hist' = [NoteReturn(hist, c) EXCEPT !.lost = @ \/ value = "undefined"]

\* an insert step that does not look at the error of the insert
handleAddSale_insert_unchecked(c) ==
    /\ pc[c] = "insert"
    /\ IF OrderNumberConflict(call[c].nextOrderNumber)
       THEN /\ pc' = [pc EXCEPT ![c] = "items"]
            /\ UNCHANGED <<sales, nextId, feed, call, hist>>
       ELSE /\ LET row == [id |-> nextId, timestamp |-> nextId,
                           total |-> call[c].saleData.total,
                           paymentMethod |-> call[c].saleData.paymentMethod,
                           status |-> saleStatus(call[c].saleData.items),
                           order_number |-> call[c].nextOrderNumber,
                           admin_notes |-> Null,
                           user_notes |-> call[c].saleData.userNotes]
               IN  /\ sales' = sales \cup {row}
                   /\ feed' = Broadcast(feed, [table |-> "sales", type |-> "INSERT", new |-> row])
            /\ nextId' = nextId + 1
            /\ pc' = [pc EXCEPT ![c] = "items"]
            /\ call' = [call EXCEPT ![c].saleId = nextId]
            /\ hist' = NoteMissed(hist, feed)
    /\ UNCHANGED <<products, sale_items, clientProducts, clientSales, refetch, pendingIns>>
    /\ UNCHANGED <<cart, auth, pos>>

\* await supabase.from('sales').insert({...}).select().single(); on an error:
\* console.error, addToast and return (no sale)
handleAddSale_insert(c) ==
    /\ pc[c] = "insert"
    /\ IF OrderNumberConflict(call[c].nextOrderNumber)
       THEN /\ Return(c, "undefined")
            /\ UNCHANGED <<sales, nextId, feed>>
       ELSE /\ LET row == [id |-> nextId, timestamp |-> nextId,
                           total |-> call[c].saleData.total,
                           paymentMethod |-> call[c].saleData.paymentMethod,
                           status |-> saleStatus(call[c].saleData.items),
                           order_number |-> call[c].nextOrderNumber,
                           admin_notes |-> Null,
                           user_notes |-> call[c].saleData.userNotes]
               IN  /\ sales' = sales \cup {row}
                   /\ feed' = Broadcast(feed, [table |-> "sales", type |-> "INSERT", new |-> row])
            /\ nextId' = nextId + 1
            /\ pc' = [pc EXCEPT ![c] = "items"]
            /\ call' = [call EXCEPT ![c].saleId = nextId]
            /\ hist' = NoteMissed(hist, feed)
    /\ UNCHANGED <<products, sale_items, clientProducts, clientSales, refetch, pendingIns>>
    /\ UNCHANGED <<cart, auth>>
    /\ pos' = IF OrderNumberConflict(call[c].nextOrderNumber) THEN PosAfter(c, FALSE) ELSE pos

\* await supabase.from('sale_items').insert(saleItemsToInsert), then the
\* stock updates are computed from the closure's products and sent
handleAddSale_items(c) ==
    /\ pc[c] = "items"
    /\ LET items == call[c].saleData.items
           rows == [i \in DOMAIN items |->
                      [sale_id |-> call[c].saleId, product_id |-> items[i].id,
                       name |-> items[i].name, price |-> items[i].price,
                       quantity |-> items[i].quantity]]
           todo == stockUpdates(items, call[c].products)
       IN  /\ sale_items' = IF \E s \in sales : s.id = call[c].saleId
                            THEN sale_items \o rows ELSE sale_items
           /\ cart' = CartAfter(c, todo = {})
           /\ pos' = IF todo = {} THEN PosAfter(c, TRUE) ELSE pos
           /\ IF todo = {}
              THEN Return(c, "sale")
              ELSE /\ pc' = [pc EXCEPT ![c] = "stock"]
                   /\ call' = [call EXCEPT ![c].todo = todo]
                   /\ UNCHANGED hist
    /\ UNCHANGED <<products, sales, nextId, clientProducts, clientSales, feed, refetch, pendingIns>>
    /\ UNCHANGED auth

\* supabase.from('products').update({ stock: newStock }).eq('id', item.id),
\* one of the updates awaited by Promise.all
handleAddSale_stock(c, u) ==
    /\ pc[c] = "stock"
    /\ u \in call[c].todo
    /\ products' = IF u.id \in DOMAIN products
                   THEN [products EXCEPT ![u.id].stock = u.stock] ELSE products
    /\ refetch' = [d \in Clients |-> TRUE]
    /\ cart' = CartAfter(c, call[c].todo = {u})
    /\ pos' = IF call[c].todo = {u} THEN PosAfter(c, TRUE) ELSE pos
    /\ IF call[c].todo = {u}
       THEN /\ pc' = [pc EXCEPT ![c] = "idle"]
            /\ call' = [call EXCEPT ![c] = NoCall]
            /\ hist' = NoteReturn(NoteStockWrite(hist, c), c)
       ELSE /\ call' = [call EXCEPT ![c].todo = @ \ {u}]
            /\ hist' = NoteStockWrite(hist, c)
            /\ UNCHANGED pc
    /\ UNCHANGED <<sales, sale_items, nextId, clientProducts, clientSales, feed, pendingIns>>
    /\ UNCHANGED auth

\* ------------------------------------------- handleAddSale, failed requests
\* the read of the last order number comes back with an error other than
\* PGRST116: console.error, addToast and return (no sale)
handleAddSale_readError(c) ==
    /\ pc[c] = "idle"
    /\ Len(hist.failed) < MaxFaults
    /\ hist' = [NoteFailure(hist, c, "read", TRUE) EXCEPT !.lost = TRUE]
    /\ UNCHANGED <<products, sales, sale_items, nextId, pc, call,
                   clientProducts, clientSales, feed, refetch, pendingIns>>
    /\ UNCHANGED <<cart, auth>>
    /\ pos' = [pos EXCEPT ![c] = [@ EXCEPT !.modal = FALSE, !.processing = FALSE]]

\* an insert step that goes on to the items after a failed insert
handleAddSale_insertError_continues(c) ==
    /\ pc[c] = "insert"
    /\ Len(hist.failed) < MaxFaults
    /\ pc' = [pc EXCEPT ![c] = "items"]
    /\ call' = [call EXCEPT ![c].saleId = 0]
    /\ hist' = NoteFailure(hist, c, "insert", TRUE)
    /\ UNCHANGED <<products, sales, sale_items, nextId,
                   clientProducts, clientSales, feed, refetch, pendingIns>>
    /\ UNCHANGED <<cart, auth, pos>>

\* the insert into sales comes back with an error (any error, not only a
\* conflict): console.error, addToast and return (no sale)
handleAddSale_insertError(c) ==
    /\ pc[c] = "insert"
    /\ Len(hist.failed) < MaxFaults
    /\ pc' = [pc EXCEPT ![c] = "idle"]
    /\ call' = [call EXCEPT ![c] = NoCall]
    /\ hist' = [NoteFailure(NoteReturn(hist, c), c, "insert", TRUE) EXCEPT !.lost = TRUE]
    /\ UNCHANGED <<products, sales, sale_items, nextId,
                   clientProducts, clientSales, feed, refetch, pendingIns>>
    /\ UNCHANGED <<cart, auth>>
    /\ pos' = PosAfter(c, FALSE)

\* the insert into sale_items comes back with an error: the result of the
\* await is not looked at, the stock updates are computed and sent as usual
handleAddSale_itemsError(c) ==
    /\ pc[c] = "items"
    /\ Len(hist.failed) < MaxFaults
    /\ LET todo == stockUpdates(call[c].saleData.items, call[c].products)
       IN  /\ cart' = CartAfter(c, todo = {})
           /\ pos' = IF todo = {} THEN PosAfter(c, TRUE) ELSE pos
           /\ IF todo = {}
              THEN /\ pc' = [pc EXCEPT ![c] = "idle"]
                   /\ call' = [call EXCEPT ![c] = NoCall]
                   /\ hist' = NoteFailure(NoteReturn(hist, c), c, "items", FALSE)
              ELSE /\ pc' = [pc EXCEPT ![c] = "stock"]
                   /\ call' = [call EXCEPT ![c].todo = todo]
                   /\ hist' = NoteFailure(hist, c, "items", FALSE)
    /\ UNCHANGED <<products, sales, sale_items, nextId, clientProducts, clientSales,
                   feed, refetch, pendingIns>>
    /\ UNCHANGED auth

\* one of the stock updates comes back with an error: Promise.all resolves
\* all the same and the results are not looked at
handleAddSale_stockError(c, u) ==
    /\ pc[c] = "stock"
    /\ u \in call[c].todo
    /\ Len(hist.failed) < MaxFaults
    /\ cart' = CartAfter(c, call[c].todo = {u})
    /\ pos' = IF call[c].todo = {u} THEN PosAfter(c, TRUE) ELSE pos
    /\ IF call[c].todo = {u}
       THEN /\ pc' = [pc EXCEPT ![c] = "idle"]
            /\ call' = [call EXCEPT ![c] = NoCall]
            /\ hist' = NoteFailure(NoteReturn(hist, c), c, "stock", FALSE)
       ELSE /\ call' = [call EXCEPT ![c].todo = @ \ {u}]
            /\ hist' = NoteFailure(hist, c, "stock", FALSE)
            /\ UNCHANGED pc
    /\ UNCHANGED <<products, sales, sale_items, nextId, clientProducts, clientSales,
                   feed, refetch, pendingIns>>
    /\ UNCHANGED auth

\* handleUpdateSaleStatus whose update comes back with an error:
\* console.error and addToast('Failed to update order status.')
handleUpdateSaleStatusError(c, saleId) ==
    /\ \E i \in DOMAIN clientSales[c] :
          clientSales[c][i].id = saleId /\ clientSales[c][i].status = "Pending"
    /\ Len(hist.failed) < MaxFaults
    /\ hist' = NoteFailure(hist, c, "status", TRUE)
    /\ UNCHANGED <<products, sales, sale_items, nextId, pc, call, clientProducts,
                   clientSales, feed, refetch, pendingIns>>
    /\ UNCHANGED <<cart, auth, pos>>

\* handleResetHistory whose deletes come back with errors: the results of the
\* two awaits are not looked at, and setSales([]) runs
handleResetHistoryError(c) ==
    /\ pc[c] = "idle"
    /\ Len(hist.failed) < MaxFaults
    /\ clientSales' = [clientSales EXCEPT ![c] = <<>>]
    /\ hist' = NoteFailure(hist, c, "reset", FALSE)
    /\ UNCHANGED <<products, sales, sale_items, nextId, pc, call, clientProducts,
                   feed, refetch, pendingIns>>
    /\ UNCHANGED <<cart, auth, pos>>

\* --------------------------------------------------------------- the POS cart
\* the index of the cart line of product p (0 when there is none)
LineOf(items, p) ==
    IF \E i \in DOMAIN items : items[i].id = p
    THEN CHOOSE i \in DOMAIN items : items[i].id = p ELSE 0

\* PosView.handleAddToCart, offered by the ProductCard of a product in stock
handleAddToCart(c, p) ==
    /\ p \in DOMAIN clientProducts[c]
    /\ clientProducts[c][p].stock > 0
    /\ LET product == clientProducts[c][p]
           i == LineOf(cart[c], p)
       IN  cart' = [cart EXCEPT ![c] =
              IF i # 0
              THEN IF @[i].quantity < product.stock
                   THEN [@ EXCEPT ![i].quantity = @ + 1] ELSE @
              ELSE Append(@, [id |-> p, name |-> product.name, price |-> product.price,
                              stock |-> product.stock, quantity |-> 1])]
    /\ UNCHANGED <<products, sales, sale_items, nextId, pc, call, clientProducts,
                   clientSales, feed, refetch, pendingIns, hist, auth, pos>>

\* PosView.handleUpdateQuantity with the number typed into the line's field
handleUpdateQuantity(c, p, newQuantity) ==
    /\ LineOf(cart[c], p) # 0
    /\ cart' = [cart EXCEPT ![c][LineOf(cart[c], p)].quantity =
                   IF newQuantity > 0 THEN newQuantity ELSE 1]
    /\ UNCHANGED <<products, sales, sale_items, nextId, pc, call, clientProducts,
                   clientSales, feed, refetch, pendingIns, hist, auth, pos>>

\* PosView.handleRemoveItem
handleRemoveItem(c, p) ==
    /\ LineOf(cart[c], p) # 0
    /\ cart' = [cart EXCEPT ![c] = SelectSeq(@, LAMBDA item : item.id # p)]
    /\ UNCHANGED <<products, sales, sale_items, nextId, pc, call, clientProducts,
                   clientSales, feed, refetch, pendingIns, hist, auth, pos>>

\* PosView.handleConfirmPayment: the cart is handed to onAddSale
handleConfirmPayment(c, paymentMethod, userNotes) ==
    /\ cart[c] # <<>>
    /\ LET items == [i \in DOMAIN cart[c] |->
                       [id |-> cart[c][i].id, name |-> cart[c][i].name,
                        price |-> cart[c][i].price, quantity |-> cart[c][i].quantity]]
       IN  handleAddSale_read(c, [items |-> items, total |-> SumTotal(items),
                                  paymentMethod |-> paymentMethod,
                                  userNotes |-> userNotes])
    /\ pos' = [pos EXCEPT ![c].processing = TRUE]

\* PosView.handleCheckout, offered while the cart is not empty
handleCheckout(c) ==
    /\ cart[c] # <<>>
    /\ pos' = [pos EXCEPT ![c] = [@ EXCEPT !.completed = FALSE, !.modal = TRUE]]
    /\ UNCHANGED <<products, sales, sale_items, nextId, pc, call, clientProducts,
                   clientSales, feed, refetch, pendingIns, hist, cart, auth>>

\* PosView.handleNewOrder, offered by the receipt of the completed sale
handleNewOrder(c) ==
    /\ pos[c].completed
    /\ pos' = [pos EXCEPT ![c] = [@ EXCEPT !.completed = FALSE, !.modal = FALSE]]
    /\ UNCHANGED <<products, sales, sale_items, nextId, pc, call, clientProducts,
                   clientSales, feed, refetch, pendingIns, hist, cart, auth>>

\* PosView.handleSaveNotes
handleSaveNotes(c, notes) ==
    /\ pos' = [pos EXCEPT ![c].userNotes = notes]
    /\ UNCHANGED <<products, sales, sale_items, nextId, pc, call, clientProducts,
                   clientSales, feed, refetch, pendingIns, hist, cart, auth>>

\* an await of handleAddSale rejects: the call ends there, and the catch of
\* handleConfirmPayment logs it and closes the payment modal
handleAddSale_throws(c) ==
    /\ pc[c] # "idle"
    /\ call[c].op = "addSale"
    /\ pc' = [pc EXCEPT ![c] = "idle"]
    /\ call' = [call EXCEPT ![c] = NoCall]
    /\ hist' = NoteReturn(hist, c)
    /\ pos' = PosAfter(c, FALSE)
    /\ UNCHANGED <<products, sales, sale_items, nextId, clientProducts,
                   clientSales, feed, refetch, pendingIns, cart, auth>>

\* -------------------------------------------------------- sessions and logout
\* A session is kept as a set: empty for null, else the one session record.
\* auth.now is the clock that `new Date()` and the store's now() read; it ticks
\* at every timestamp taken, so that two timestamps never coincide.
StampsLeft == MaxTime - auth.now - Cardinality({c \in Clients : auth.rpc[c] # {}})

\* the store function behind supabase.rpc('update_global_logout_timestamp'):
\* the marker last_global_logout_timestamp of app_config becomes now()
update_global_logout_timestamp(a, c) ==
    [a EXCEPT !.marker = a.now, !.markerBy = c, !.now = @ + 1]

\* new Date(globalLogoutTimestamp) > new Date(session.loginTimestamp), for the
\* marker read by the poll (0: no row) and the session of the poll's closure
isRevoked(marker, s) == marker # 0 /\ marker > s.loginTimestamp

\* handleLogin with the right password: a session issued now
handleLogin(c, loginRole) ==
    /\ auth.session[c] = {}
    /\ StampsLeft >= 1
    /\ auth' = [auth EXCEPT !.session[c] = {[role |-> loginRole, loginTimestamp |-> auth.now]},
                            !.notice[c] = FALSE,
                            !.view[c] = "pos",
                            !.now = @ + 1]
    /\ UNCHANGED <<products, sales, sale_items, nextId, pc, call, clientProducts,
                   clientSales, feed, refetch, pendingIns, hist, cart, pos>>

\* handleLogin on a runtime that does not batch the state updates made after
\* an await: setSession(...) is rendered before setCurrentView('pos') runs
handleLogin_session(c, loginRole) ==
    /\ auth.session[c] = {}
    /\ StampsLeft >= 1
    /\ auth' = [auth EXCEPT !.session[c] = {[role |-> loginRole, loginTimestamp |-> auth.now]},
                            !.notice[c] = FALSE,
                            !.login[c] = TRUE,
                            !.now = @ + 1]
    /\ UNCHANGED <<products, sales, sale_items, nextId, pc, call, clientProducts,
                   clientSales, feed, refetch, pendingIns, hist, cart, pos>>

\* the setCurrentView('pos') of that handleLogin
handleLogin_view(c) ==
    /\ auth.login[c]
    /\ auth' = [auth EXCEPT !.view[c] = "pos", !.login[c] = FALSE]
    /\ UNCHANGED <<products, sales, sale_items, nextId, pc, call, clientProducts,
                   clientSales, feed, refetch, pendingIns, hist, cart, pos>>

\* the views of the app, and those of the admin
Views == {"pos", "orders", "dashboard", "history", "inventory"}
adminViews == {"dashboard", "history", "inventory"}

\* Header.handleNavClick on one of the nav items the header shows for the role
handleNavClick(c, view) ==
    /\ \E s \in auth.session[c] : view \in adminViews => s.role = "admin"
    /\ auth' = [auth EXCEPT !.view[c] = view]
    /\ UNCHANGED <<products, sales, sale_items, nextId, pc, call, clientProducts,
                   clientSales, feed, refetch, pendingIns, hist, cart, pos>>

\* a renderView that switches on currentView alone
Rendered_ungated(c) ==
    IF auth.session[c] = {} THEN "login" ELSE auth.view[c]

\* what AppContent renders: LoginView without a session; PosView for a user
\* whose currentView is an admin view; else the view of currentView
Rendered(c) ==
    IF auth.session[c] = {} THEN "login"
    ELSE IF (\E s \in auth.session[c] : s.role = "user") /\ auth.view[c] \in adminViews
         THEN "pos"
         ELSE auth.view[c]

\* renderView for a user whose currentView is an admin view: setCurrentView('pos')
renderView(c) ==
    /\ \E s \in auth.session[c] : s.role = "user"
    /\ auth.view[c] \in adminViews
    /\ auth' = [auth EXCEPT !.view[c] = "pos"]
    /\ UNCHANGED <<products, sales, sale_items, nextId, pc, call, clientProducts,
                   clientSales, feed, refetch, pendingIns, hist, cart, pos>>

\* handleLogout
handleLogout(c) ==
    /\ auth.session[c] # {}
    /\ auth' = [auth EXCEPT !.session[c] = {}, !.view[c] = "pos"]
    /\ UNCHANGED <<products, sales, sale_items, nextId, pc, call, clientProducts,
                   clientSales, feed, refetch, pendingIns, hist, cart, pos>>

\* handleGlobalLogout, offered by the settings view of an admin: the rpc is
\* sent and the store moves the marker
handleGlobalLogout(c) ==
    /\ auth.session[c] # {}
    /\ \E s \in auth.session[c] : s.role = "admin"
    /\ auth.rpc[c] = {}
    /\ StampsLeft >= 2
    /\ auth' = [update_global_logout_timestamp(auth, c) EXCEPT !.rpc[c] = auth.session[c]]
    /\ UNCHANGED <<products, sales, sale_items, nextId, pc, call, clientProducts,
                   clientSales, feed, refetch, pendingIns, hist, cart, pos>>

\* the rpc has returned without an error:
\* setSession({ role: session.role, loginTimestamp: new Date().toISOString() })
handleGlobalLogout_done(c) ==
    /\ auth.rpc[c] # {}
    /\ auth' = [auth EXCEPT
          !.session[c] = {[role |-> s.role, loginTimestamp |-> auth.now] : s \in auth.rpc[c]},
          !.rpc[c] = {},
          !.now = @ + 1]
    /\ UNCHANGED <<products, sales, sale_items, nextId, pc, call, clientProducts,
                   clientSales, feed, refetch, pendingIns, hist, cart, pos>>

\* a tick of setInterval(checkGlobalLogout, 5000): the select is sent by the
\* closure of the effect, which holds the session the effect was run with
checkGlobalLogout(c) ==
    /\ auth.session[c] # {}
    /\ auth' = [auth EXCEPT !.poll[c] = @ \cup auth.session[c]]
    /\ UNCHANGED <<products, sales, sale_items, nextId, pc, call, clientProducts,
                   clientSales, feed, refetch, pendingIns, hist, cart, pos>>

\* a poll that reads the marker and leaves the session alone
checkGlobalLogout_result_ignored(c, s) ==
    /\ s \in auth.poll[c]
    /\ auth' = [auth EXCEPT !.poll[c] = @ \ {s}]
    /\ UNCHANGED <<products, sales, sale_items, nextId, pc, call, clientProducts,
                   clientSales, feed, refetch, pendingIns, hist, cart, pos>>

\* the select of a poll has returned the marker: setSession(null) and the
\* toast 'You have been logged out by an admin.' when the marker is newer
checkGlobalLogout_result(c, s) ==
    /\ s \in auth.poll[c]
    /\ auth' = IF isRevoked(auth.marker, s)
               THEN [auth EXCEPT !.poll[c] = @ \ {s}, !.session[c] = {}, !.notice[c] = TRUE]
               ELSE [auth EXCEPT !.poll[c] = @ \ {s}]
    /\ UNCHANGED <<products, sales, sale_items, nextId, pc, call, clientProducts,
                   clientSales, feed, refetch, pendingIns, hist, cart, pos>>

\* ------------------------------------------------- status, notes and reset
\* a "Mark as Done" that toggles the status of the row
handleUpdateSaleStatus_toggle(c, saleId) ==
    /\ \E i \in DOMAIN clientSales[c] :
          clientSales[c][i].id = saleId /\ clientSales[c][i].status = "Pending"
    /\ sales' = {IF s.id = saleId
                 THEN [s EXCEPT !.status = IF @ = "Completed" THEN "Pending" ELSE "Completed"]
                 ELSE s : s \in sales}
    /\ feed' = UpdateEvents(feed, sales', saleId)
    /\ hist' = IF feed' = feed THEN hist ELSE NoteMissed(hist, feed)
    /\ UNCHANGED <<products, sale_items, nextId, pc, call,
                   clientProducts, clientSales, refetch, pendingIns>>
    /\ UNCHANGED <<cart, auth, pos>>

\* a "Mark as Done" that gives the items of the sale back to the stock
handleUpdateSaleStatus_restock(c, saleId) ==
    /\ \E i \in DOMAIN clientSales[c] :
          clientSales[c][i].id = saleId /\ clientSales[c][i].status = "Pending"
    /\ sales' = UpdateSale(sales, saleId, "status", "Completed")
    /\ feed' = UpdateEvents(feed, sales', saleId)
    /\ hist' = IF feed' = feed THEN hist ELSE NoteMissed(hist, feed)
    /\ products' = [p \in DOMAIN products |->
          [products[p] EXCEPT !.stock =
              @ + Cardinality({i \in DOMAIN ItemsOf(saleId) : ItemsOf(saleId)[i].id = p})]]
    /\ UNCHANGED <<sale_items, nextId, pc, call,
                   clientProducts, clientSales, refetch, pendingIns>>
    /\ UNCHANGED <<cart, auth, pos>>

\* OrdersView offers "Mark as Done" on the sales the client holds as Pending
handleUpdateSaleStatus(c, saleId) ==
    /\ \E i \in DOMAIN clientSales[c] :
          clientSales[c][i].id = saleId /\ clientSales[c][i].status = "Pending"
    /\ sales' = UpdateSale(sales, saleId, "status", "Completed")
    /\ feed' = UpdateEvents(feed, sales', saleId)
    /\ hist' = IF feed' = feed THEN hist ELSE NoteMissed(hist, feed)
    /\ UNCHANGED <<products, sale_items, nextId, pc, call,
                   clientProducts, clientSales, refetch, pendingIns>>
    /\ UNCHANGED <<cart, auth, pos>>

\* a notes editor that writes the row back as an open order
handleUpdateSaleNotes_reopen(c, saleId, notes) ==
    /\ \E i \in DOMAIN clientSales[c] :
          clientSales[c][i].id = saleId /\ clientSales[c][i].status = "Completed"
    /\ sales' = UpdateSale(UpdateSale(sales, saleId, "admin_notes", notes),
                           saleId, "status", "Pending")
    /\ feed' = UpdateEvents(feed, sales', saleId)
    /\ hist' = NoteNotes(IF feed' = feed THEN hist ELSE NoteMissed(hist, feed),
                         {s \in sales' : s.id = saleId})
    /\ UNCHANGED <<products, sale_items, nextId, pc, call,
                   clientProducts, clientSales, refetch, pendingIns>>
    /\ UNCHANGED <<cart, auth, pos>>

\* OrdersView offers the notes editor on the sales the client holds as Completed
handleUpdateSaleNotes(c, saleId, notes) ==
    /\ \E i \in DOMAIN clientSales[c] :
          clientSales[c][i].id = saleId /\ clientSales[c][i].status = "Completed"
    /\ sales' = UpdateSale(sales, saleId, "admin_notes", notes)
    /\ feed' = UpdateEvents(feed, sales', saleId)
    /\ hist' = NoteNotes(IF feed' = feed THEN hist ELSE NoteMissed(hist, feed),
                         {s \in sales' : s.id = saleId})
    /\ UNCHANGED <<products, sale_items, nextId, pc, call,
                   clientProducts, clientSales, refetch, pendingIns>>
    /\ UNCHANGED <<cart, auth, pos>>

\* a save of the product form that also relabels the items sold of the product
handleSaveProduct_relabel(c, p, name) ==
    /\ pc[c] = "idle"
    /\ p \in DOMAIN clientProducts[c]
    /\ products' = [products EXCEPT ![p] =
                      [name |-> name, price |-> clientProducts[c][p].price,
                       stock |-> clientProducts[c][p].stock]]
    /\ sale_items' = [i \in DOMAIN sale_items |->
                         IF sale_items[i].product_id = p
                         THEN [sale_items[i] EXCEPT !.name = name] ELSE sale_items[i]]
    /\ refetch' = [d \in Clients |-> TRUE]
    /\ UNCHANGED <<sales, nextId, pc, call,
                   clientProducts, clientSales, feed, pendingIns, hist>>
    /\ UNCHANGED <<cart, auth, pos>>

\* SettingsView's product form saved for an existing product: the form holds
\* the product as the client knows it, with the name typed by the admin
handleSaveProduct(c, p, name) ==
    /\ pc[c] = "idle"
    /\ p \in DOMAIN clientProducts[c]
    /\ products' = [products EXCEPT ![p] =
                      [name |-> name, price |-> clientProducts[c][p].price,
                       stock |-> clientProducts[c][p].stock]]
    /\ refetch' = [d \in Clients |-> TRUE]
    /\ UNCHANGED <<sales, sale_items, nextId, pc, call,
                   clientProducts, clientSales, feed, pendingIns, hist>>
    /\ UNCHANGED <<cart, auth, pos>>

\* await supabase.from('products').delete().eq('id', productId), offered by
\* SettingsView on the products the client lists
handleDeleteProduct(c, p) ==
    /\ pc[c] = "idle"
    /\ p \in DOMAIN clientProducts[c]
    /\ products' = [q \in DOMAIN products \ {p} |-> products[q]]
    /\ refetch' = [d \in Clients |-> TRUE]
    /\ UNCHANGED <<sales, sale_items, nextId, pc, call,
                   clientProducts, clientSales, feed, pendingIns, hist>>
    /\ UNCHANGED <<cart, auth, pos>>

\* a placeholder sale that reserves the next order number ahead of item entry
reserveDraft(c) ==
    /\ pc[c] = "idle"
    /\ LET row == [id |-> nextId, timestamp |-> nextId, total |-> 0,
                   paymentMethod |-> CHOOSE pm \in PaymentMethods : TRUE,
                   status |-> "Draft",
                   order_number |-> nextOrderNumber(lastSale(sales)),
                   admin_notes |-> Null, user_notes |-> Null]
       IN  /\ sales' = sales \cup {row}
           /\ feed' = Broadcast(feed, [table |-> "sales", type |-> "INSERT", new |-> row])
    /\ nextId' = nextId + 1
    /\ hist' = NoteMissed(hist, feed)
    /\ UNCHANGED <<products, sale_items, pc, call,
                   clientProducts, clientSales, refetch, pendingIns>>
    /\ UNCHANGED <<cart, auth, pos>>

\* await supabase.from('sale_items').delete().neq('sale_id', zero uuid)
handleResetHistory_items(c) ==
    /\ pc[c] = "idle"
    /\ hist.resets + Cardinality({d \in Clients : pc[d] = "reset"}) < MaxResets
    /\ pc' = [pc EXCEPT ![c] = "reset"]
    /\ sale_items' = <<>>
    /\ UNCHANGED <<products, sales, nextId, call,
                   clientProducts, clientSales, feed, refetch, pendingIns, hist>>
    /\ UNCHANGED <<cart, auth, pos>>

\* await supabase.from('sales').delete().neq('id', zero uuid); setSales([])
\* (the sale_items of a deleted sale go with it: ON DELETE CASCADE)
handleResetHistory_sales(c) ==
    /\ pc[c] = "reset"
    /\ pc' = [pc EXCEPT ![c] = "idle"]
    /\ sales' = {}
    /\ sale_items' = <<>>
    /\ clientSales' = [clientSales EXCEPT ![c] = <<>>]
    /\ hist' = [hist EXCEPT !.resets = @ + 1]
    /\ UNCHANGED <<products, nextId, call, clientProducts, feed, refetch,
                   pendingIns>>
    /\ UNCHANGED <<cart, auth, pos>>

\* ------------------------------------------------------------- the sync engine
\* fetchInitialData after a (re)load: products, and the sales that are not
\* Draft, newest first, each with its items; the channel is subscribed anew
fetchInitialData(c) ==
    /\ pc[c] = "idle"
    /\ clientProducts' = [clientProducts EXCEPT ![c] = products]
    /\ clientSales' = [clientSales EXCEPT ![c] =
          LET rows == orderDesc({s \in sales : s.status # "Draft"})
          IN  [i \in DOMAIN rows |-> WithItems(rows[i], ItemsOf(rows[i].id))]]
    /\ feed' = [feed EXCEPT ![c] = <<>>]
    /\ refetch' = [refetch EXCEPT ![c] = FALSE]
    /\ pendingIns' = [pendingIns EXCEPT ![c] = {}]
    /\ hist' = [hist EXCEPT !.missed = @ \ {c}]
    /\ UNCHANGED <<products, sales, sale_items, nextId, pc, call>>
    /\ UNCHANGED <<cart, auth, pos>>

\* a products change: the collection is fetched again in full
onProductsChange(c) ==
    /\ refetch[c]
    /\ refetch' = [refetch EXCEPT ![c] = FALSE]
    /\ clientProducts' = [clientProducts EXCEPT ![c] = products]
    /\ UNCHANGED <<products, sales, sale_items, nextId, pc, call,
                   clientSales, feed, pendingIns, hist>>
    /\ UNCHANGED <<cart, auth, pos>>

\* a sales INSERT: the handler starts the fetch of the new sale's items
onSaleInsert(c) ==
    /\ feed[c] # <<>>
    /\ Head(feed[c]).type = "INSERT"
    /\ feed' = [feed EXCEPT ![c] = Tail(@)]
    /\ pendingIns' = [pendingIns EXCEPT ![c] = @ \cup {Head(feed[c]).new}]
    /\ UNCHANGED <<products, sales, sale_items, nextId, pc, call,
                   clientProducts, clientSales, refetch, hist>>
    /\ UNCHANGED <<cart, auth, pos>>

\* the items arrive: setSales(prev => [newSaleWithItems, ...prev.sort(...)])
onSaleInsert_items(c, row) ==
    /\ row \in pendingIns[c]
    /\ pendingIns' = [pendingIns EXCEPT ![c] = @ \ {row}]
    /\ clientSales' = [clientSales EXCEPT ![c] =
          insertSale(@, WithItems(row, ItemsOf(row.id)))]
    /\ UNCHANGED <<products, sales, sale_items, nextId, pc, call,
                   clientProducts, feed, refetch, hist>>
    /\ UNCHANGED <<cart, auth, pos>>

\* a sales UPDATE: status and admin_notes of the matching record are patched
onSaleUpdate(c) ==
    /\ feed[c] # <<>>
    /\ Head(feed[c]).type = "UPDATE"
    /\ feed' = [feed EXCEPT ![c] = Tail(@)]
    /\ clientSales' = [clientSales EXCEPT ![c] = patchSale(@, Head(feed[c]).new)]
    /\ hist' = [hist EXCEPT !.applied = @ \/ Head(feed[c]).new \in hist.noted]
    /\ UNCHANGED <<products, sales, sale_items, nextId, pc, call,
                   clientProducts, refetch, pendingIns>>
    /\ UNCHANGED <<cart, auth, pos>>

\* ------------------------------------------------------------ specifications
\* the steps of handleAddSale of one client
StartSale(c) ==
    /\ \E d \in CartSaleData(c) \cup ManualSaleData : handleAddSale_read(c, d)
    /\ UNCHANGED pos

AddSale(c) ==
    \/ StartSale(c)
    \/ handleAddSale_insert(c)
    \/ handleAddSale_items(c)
    \/ \E u \in Todo(c) : handleAddSale_stock(c, u)

\* the orders board of one client
Orders(c) ==
    \/ \E id \in 1..MaxSales : handleUpdateSaleStatus(c, id)
    \/ \E id \in 1..MaxSales : \E n \in AdminNotes : handleUpdateSaleNotes(c, id, n)

\* the history view of one client
Reset(c) ==
    \/ handleResetHistory_items(c)
    \/ handleResetHistory_sales(c)

\* the sales subscriptions of one client
Sync(c) ==
    \/ fetchInitialData(c)
    \/ onSaleInsert(c)
    \/ \E row \in pendingIns[c] : onSaleInsert_items(c, row)
    \/ onSaleUpdate(c)

\* Every client works the POS view and the history view against the shared
\* store, and follows the products feed.
Next ==
    \/ \E c \in Clients : AddSale(c)
    \/ \E c \in Clients : Reset(c)
    \/ \E c \in Clients : onProductsChange(c)

Spec == Init /\ [][Next]_vars

\* One till and one orders board: c1 sells; c2 follows the sales feed, marks
\* orders as done, edits notes and resets the history.
Till == "c1"
Board == "c2"

NextOrders ==
    \/ nextId <= BoardSales /\ StartSale(Till)
    \/ handleAddSale_insert(Till)
    \/ handleAddSale_items(Till)
    \/ \E u \in Todo(Till) : handleAddSale_stock(Till, u)
    \/ Sync(Board)
    \/ Orders(Board)
    \/ Reset(Board)

SpecOrders == Init /\ [][NextOrders]_vars

\* The till sells while the admin renames products in the settings view.
NextCatalog ==
    \/ AddSale(Till)
    \/ onProductsChange(Till)
    \/ \E p \in Products : \E n \in ProductNames : handleSaveProduct(Board, p, n)
    \/ onProductsChange(Board)

SpecCatalog == Init /\ [][NextCatalog]_vars

\* The till reserves order numbers with placeholder sales and sells; the
\* orders board follows the sales feed and works its orders.
NextDraft ==
    \/ nextId <= BoardSales /\ reserveDraft(Till)
    \/ nextId <= BoardSales /\ StartSale(Till)
    \/ handleAddSale_insert(Till)
    \/ handleAddSale_items(Till)
    \/ \E u \in Todo(Till) : handleAddSale_stock(Till, u)
    \/ Sync(Board)
    \/ Orders(Board)

SpecDraft == Init /\ [][NextDraft]_vars

\* One till works its cart and checks it out.
NextCart ==
    \/ \E p \in Products : handleAddToCart(Till, p)
    \/ \E p \in Products : \E n \in 0..MaxTyped : handleUpdateQuantity(Till, p, n)
    \/ \E p \in Products : handleRemoveItem(Till, p)
    \/ \E pm \in PaymentMethods : \E n \in UserNotes : handleConfirmPayment(Till, pm, n)
    \/ handleAddSale_insert(Till)
    \/ handleAddSale_items(Till)
    \/ \E u \in Todo(Till) : handleAddSale_stock(Till, u)
    \/ onProductsChange(Till)

SpecCart == Init /\ [][NextCart]_vars

\* the polls in flight of one client
Polls(c) == \E s \in auth.poll[c] : checkGlobalLogout_result(c, s)

\* The till sells; the other client follows the sales feed, which can drop
\* events, and runs its one timer, the logout poll. fetchInitialData runs when
\* the effect is run (a load of the page or a change of the session), it is
\* not on a timer.
NextPush ==
    \/ AddSale(Till)
    \/ onSaleInsert(Board)
    \/ \E row \in pendingIns[Board] : onSaleInsert_items(Board, row)
    \/ checkGlobalLogout(Board)
    \/ Polls(Board)
    \/ fetchInitialData(Board)

SpecPush == Init /\ [][NextPush]_vars

\* what the runtime runs without the user: the rest of a handleAddSale that
\* was started, the handlers of delivered events, the ticks of
\* setInterval(checkGlobalLogout, 5000) and their answers
SpecPushFair ==
    /\ SpecPush
    /\ WF_vars(handleAddSale_insert(Till))
    /\ WF_vars(handleAddSale_items(Till))
    /\ WF_vars(\E u \in Todo(Till) : handleAddSale_stock(Till, u))
    /\ WF_vars(onSaleInsert(Board))
    /\ WF_vars(\E row \in pendingIns[Board] : onSaleInsert_items(Board, row))
    /\ WF_vars(checkGlobalLogout(Board))
    /\ WF_vars(Polls(Board))

\* Both clients follow the sales feed; the till sells, and the orders board
\* marks orders as done and edits their notes.
NextNotes ==
    \/ nextId <= NotesSales /\ StartSale(Till)
    \/ handleAddSale_insert(Till)
    \/ handleAddSale_items(Till)
    \/ \E u \in Todo(Till) : handleAddSale_stock(Till, u)
    \/ Sync(Till)
    \/ Sync(Board)
    \/ Orders(Board)

SpecNotes == Init /\ [][NextNotes]_vars

\* The till sells from its cart; the admin on the other client follows the
\* sales feed, works the orders, and renames and deletes products.
NextSnapshot ==
    \/ \E p \in Products : handleAddToCart(Till, p)
    \/ nextId <= NotesSales
          /\ \E pm \in PaymentMethods : \E n \in UserNotes : handleConfirmPayment(Till, pm, n)
    \/ handleAddSale_insert(Till)
    \/ handleAddSale_items(Till)
    \/ \E u \in Todo(Till) : handleAddSale_stock(Till, u)
    \/ onProductsChange(Till)
    \/ Sync(Board)
    \/ Orders(Board)
    \/ \E p \in Products : \E n \in ProductNames : handleSaveProduct(Board, p, n)
    \/ \E p \in Products : handleDeleteProduct(Board, p)
    \/ onProductsChange(Board)

SpecSnapshot == Init /\ [][NextSnapshot]_vars

\* One till fills its cart, notes the order and pays in the payment modal,
\* against a store whose requests can fail.
NextCheckout ==
    \/ ~pos[Till].modal /\ \E p \in Products : handleAddToCart(Till, p)
    \/ ~pos[Till].modal /\ \E n \in PosNotes : handleSaveNotes(Till, n)
    \/ ~pos[Till].modal /\ handleCheckout(Till)
    \/ pos[Till].modal /\ ~pos[Till].completed
          /\ \E pm \in PaymentMethods : handleConfirmPayment(Till, pm, pos[Till].userNotes)
    \/ pos[Till].modal /\ ~pos[Till].completed /\ cart[Till] # <<>>
          /\ handleAddSale_readError(Till)
    \/ handleAddSale_insert(Till)
    \/ handleAddSale_insertError(Till)
    \/ handleAddSale_items(Till)
    \/ \E u \in Todo(Till) : handleAddSale_stock(Till, u)
    \/ handleAddSale_throws(Till)
    \/ handleNewOrder(Till)
    \/ onProductsChange(Till)

SpecCheckout == Init /\ [][NextCheckout]_vars

\* One till checks its cart out against a store whose requests can fail; the
\* other client loads the history.
NextFaults ==
    \/ \E p \in Products : handleAddToCart(Till, p)
    \/ \E pm \in PaymentMethods : \E n \in UserNotes : handleConfirmPayment(Till, pm, n)
    \/ cart[Till] # <<>> /\ handleAddSale_readError(Till)
    \/ handleAddSale_insert(Till)
    \/ handleAddSale_insertError(Till)
    \/ handleAddSale_items(Till)
    \/ handleAddSale_itemsError(Till)
    \/ \E u \in Todo(Till) : handleAddSale_stock(Till, u)
    \/ \E u \in Todo(Till) : handleAddSale_stockError(Till, u)
    \/ onProductsChange(Till)
    \/ fetchInitialData(Board)
    \/ \E id \in 1..MaxSales : handleUpdateSaleStatusError(Board, id)
    \/ handleResetHistoryError(Board)

SpecFaults == Init /\ [][NextFaults]_vars


\* Every client logs in and out, polls the logout marker, and as an admin
\* logs all other devices out.
NextAuth ==
    \/ \E c \in Clients : \E r \in Roles : handleLogin(c, r)
    \/ \E c \in Clients : handleLogout(c)
    \/ \E c \in Clients : handleGlobalLogout(c)
    \/ \E c \in Clients : handleGlobalLogout_done(c)
    \/ \E c \in Clients : checkGlobalLogout(c)
    \/ \E c \in Clients : Polls(c)

SpecAuth == Init /\ [][NextAuth]_vars

\* Sessions come and go (login, logout, forced logout) while the clients
\* move between the views.
NextViews ==
    \/ NextAuth
    \/ \E c \in Clients : \E r \in Roles : handleLogin_session(c, r)
    \/ \E c \in Clients : handleLogin_view(c)
    \/ \E c \in Clients : \E v \in Views : handleNavClick(c, v)
    \/ \E c \in Clients : renderView(c)

SpecViews == Init /\ [][NextViews]_vars

\* the interval keeps ticking while a session exists, and every select and
\* every rpc is answered
SpecAuthFair ==
    /\ SpecAuth
    /\ \A c \in Clients : WF_vars(checkGlobalLogout(c))
    /\ \A c \in Clients : WF_vars(Polls(c))
    /\ \A c \in Clients : WF_vars(handleGlobalLogout_done(c))

\* ------------------------------------------------------------------ properties
\* the largest number of a set of order numbers, 0 for the empty set
MaxOf(S) == IF S = {} THEN 0 ELSE CHOOSE n \in S : \A m \in S : m <= n

\* the step of client c is the insert of its sales row
Inserts(c) == pc[c] = "insert" /\ pc'[c] = "items"

\* C1: createSale calls issued concurrently all end up persisted, with
\* distinct positive order numbers: no call loses its sale to the order-number
\* conflict, and no two persisted sales share an order number.
C1_ConcurrentCallsAllPersisted ==
    /\ ~hist.lost
    /\ \A s \in sales : s.order_number >= 1
    /\ \A s, t \in sales : s.id # t.id => s.order_number # t.order_number

\* C2: a successful createSale persists exactly one sale, numbered 1 + the
\* largest order number the store held at its read (0 for an empty store); when
\* the store's numbers did not change between the read and the insert, the new
\* number exceeds every stored one and directly follows the largest.
C2_OrderNumberIsMaxPlusOne ==
    [][\A c \in Clients : Inserts(c) =>
          \E s \in sales' \ sales :
             /\ sales' = sales \cup {s}
             /\ s.order_number = MaxOf(hist.readNumbers[c]) + 1
             /\ ({t.order_number : t \in sales} = hist.readNumbers[c] =>
                   /\ \A t \in sales : s.order_number > t.order_number
                   /\ sales # {} => \E t \in sales : s.order_number = t.order_number + 1)]_vars

\* C2 witness: two calls that did not overlap were numbered 1 and 2
C2_ConsecutiveNumbers ==
    \E s, t \in sales : s.id < t.id /\ s.order_number = 1 /\ t.order_number = 2

\* C3: after resetHistory has run, the next sale a createSale persists (the
\* first row of the emptied sales table) has order number 1.
C3_FirstAfterResetIsOne ==
    [][\A c \in Clients : (Inserts(c) /\ hist.resets > 0 /\ sales = {}) =>
          \A s \in sales' \ sales : s.order_number = 1]_vars

\* C4: in every state of the store, the total of every sale equals the sum of
\* price x quantity over the sale_items rows stored for it.
C4_TotalIsSumOfItems ==
    \A s \in sales : s.total = SumTotal(ItemsOf(s.id))

\* C5: the status of a stored sale changes only from Pending to Completed; no
\* step of any client takes a Completed sale back to Pending or to Draft.
C5_StatusNeverBackward ==
    [][\A s \in sales : \A t \in sales' :
          (s.id = t.id /\ s.status # t.status) =>
             (s.status = "Pending" /\ t.status = "Completed")]_vars

\* C5 witness: a catalog sale was completed and then annotated
C5_CompletedAndAnnotated ==
    \E s \in sales :
       /\ s.status = "Completed"
       /\ s.admin_notes # Null
       /\ \E i \in DOMAIN sale_items :
             sale_items[i].sale_id = s.id /\ ~startsWith(sale_items[i].product_id, "manual-")

\* C6: completeSale leaves its sale Completed with every other field, and
\* every other sale, as it was; run on a sale that is already Completed it leaves
\* the store unchanged, so a second run yields the state of the first.
C6_CompleteSaleIdempotent ==
    [][\A id \in 1..MaxSales : handleUpdateSaleStatus(Board, id) =>
          /\ \A s \in sales : IF s.id = id
                              THEN [s EXCEPT !.status = "Completed"] \in sales'
                              ELSE s \in sales'
          /\ Cardinality(sales') = Cardinality(sales)
          /\ (\E s \in sales : s.id = id /\ s.status = "Completed") => sales' = sales
          /\ UpdateSale(sales', id, "status", "Completed") = sales']_vars

\* C6 witness: completeSale ran twice on one sale (two equal UPDATE events of
\* a sale without notes wait for the board)
C6_CompletedTwice ==
    /\ Len(feed[Board]) = 2
    /\ feed[Board][1] = feed[Board][2]
    /\ feed[Board][1].type = "UPDATE"
    /\ feed[Board][1].new.status = "Completed"
    /\ feed[Board][1].new.admin_notes = Null

\* C7: no client's in-memory sales list holds a sale whose status is Draft.
C7_NoDraftInClientLists ==
    \A c \in Clients : \A i \in DOMAIN clientSales[c] :
       clientSales[c][i].status # "Draft"

\* C8: createSale persists its sale as Completed exactly when it is a manual
\* sale (an item with a 'manual-' id), and as Pending otherwise.
C8_CompletedIffManual ==
    [][\A c \in Clients : Inserts(c) =>
          \A s \in sales' \ sales :
             s.status = IF \E i \in DOMAIN call[c].saleData.items :
                               startsWith(call[c].saleData.items[i].id, "manual-")
                        THEN "Completed" ELSE "Pending"]_vars

\* C9: a stock write of a createSale that ran with no concurrent writer sets
\* the product's stock in the store to its stock before minus the quantity
\* sold, and a createSale without catalog items leaves products as it is.
C9_StockIsStoreMinusQuantity ==
    [][\A c \in Clients :
          /\ \A u \in Todo(c) :
                (handleAddSale_stock(c, u) /\ ~hist.stockChanged[c]) =>
                   products'[u.id].stock = products[u.id].stock - u.quantity
          /\ (pc[c] = "items" /\ pc'[c] = "idle") => products' = products]_vars

\* C10: the stock decrement is atomic: every stock write of a createSale
\* whose client knew the store's products when the call began lowers the stock
\* the store holds at the write by the quantity sold, whatever other createSale
\* wrote in between, so that no decrement is lost.
C10_DecrementIsAtomic ==
    [][\A c \in Clients : \A u \in Todo(c) :
          (handleAddSale_stock(c, u) /\ call[c].fresh) =>
             products'[u.id].stock = products[u.id].stock - u.quantity]_vars

\* C11: in every state of the store the stock of every product is >= 0.
C11_StockNeverNegative ==
    \A p \in DOMAIN products : products[p].stock >= 0

\* C12: a createSale whose order number was taken between its read and its
\* insert is rejected: its step writes no sales, sale_items or products row, it
\* ends the call with an error shown and no sale returned, and the store never
\* holds two sales with one order number.
C12_LostRaceIsRejected ==
    [][/\ \A c \in Clients :
            (pc[c] = "insert" /\ pc'[c] # "insert"
               /\ OrderNumberConflict(call[c].nextOrderNumber)) =>
                  /\ sales' = sales /\ sale_items' = sale_items /\ products' = products
                  /\ pc'[c] = "idle" /\ call'[c] = NoCall
                  /\ hist'.lost
       /\ \A s, t \in sales' : s.id # t.id => s.order_number # t.order_number]_vars

\* C12 witness: a call lost the race against a sale that is in the store
C12_RaceLost ==
    /\ hist.lost
    /\ sales # {}
    /\ \A c \in Clients : pc[c] = "idle"

\* nothing is on its way to client c: no handler runs, and every event pushed
\* to c was delivered and handled
Quiet(c) ==
    /\ \A d \in Clients : pc[d] = "idle"
    /\ feed[c] = <<>> /\ pendingIns[c] = {} /\ ~refetch[c]
    /\ c \notin hist.missed

\* the sales a client is to show: the non-Draft sales, each with its items
StoreView ==
    {WithItems(s, ItemsOf(s.id)) : s \in {t \in sales : t.status # "Draft"}}

\* C13: once the writes have stopped and everything pushed to a client was
\* delivered, its products equal the store's products and its sales are the
\* store's non-Draft sales with their items.
C13_EventuallyConsistent ==
    \A c \in Clients : Quiet(c) =>
       /\ clientProducts[c] = products
       /\ {clientSales[c][i] : i \in DOMAIN clientSales[c]} = StoreView
       /\ Len(clientSales[c]) = Cardinality(StoreView)

\* the session of client c was issued before the logout marker
Stale(c) ==
    \E s \in auth.session[c] : auth.marker # 0 /\ auth.marker > s.loginTimestamp

C15_FeedHandlersIdempotent ==
    \A c \in Clients :
       /\ \A row \in pendingIns[c] :
             LET new == WithItems(row, ItemsOf(row.id))
             IN  insertSale(insertSale(clientSales[c], new), new)
                    = insertSale(clientSales[c], new)
       /\ \A i \in DOMAIN feed[c] : feed[c][i].type = "UPDATE" =>
             patchSale(patchSale(clientSales[c], feed[c][i].new), feed[c][i].new)
                = patchSale(clientSales[c], feed[c][i].new)
       /\ \A i, j \in DOMAIN clientSales[c] :
             i # j => clientSales[c][i].id # clientSales[c][j].id

\* C16: the admin who triggered the global logout stays logged in on the
\* issuing device: once its rpc has returned, the client that set the current
\* marker is not logged out by a logout poll.
C16_IssuerStaysLoggedIn ==
    \A c \in Clients :
       (auth.markerBy = c /\ auth.rpc[c] = {}) =>
          ~(auth.session[c] = {} /\ auth.notice[c])

\* C17: a createSale whose insert meets an order-number conflict retries: the
\* call goes on with the maximum read again, it does not end at the conflict.
C17_ConflictIsRetried ==
    [][\A c \in Clients :
          (pc[c] = "insert" /\ OrderNumberConflict(call[c].nextOrderNumber)
             /\ (pc'[c] # pc[c] \/ call'[c] # call[c])) =>
                /\ pc'[c] = "insert"
                /\ call'[c].nextOrderNumber
                      = MaxOf({t.order_number : t \in sales}) + 1]_vars

\* the failed request noted by the step, when the step notes one
NewFailure == hist'.failed[Len(hist'.failed)]

\* C18: a failed read of the order number or a failed insert of the sales row
\* ends the call there: the tables of the store, the feeds and the cart are as
\* before, and the caller is idle again with no sale in hand.
C18_FailedStepHalts ==
    [][(Len(hist'.failed) > Len(hist.failed) /\ NewFailure.step \in {"read", "insert"}) =>
          /\ UNCHANGED <<products, sales, sale_items, nextId, feed, cart>>
          /\ pc'[NewFailure.client] = "idle"
          /\ call'[NewFailure.client] = NoCall
          /\ NewFailure.logged]_vars

\* a read and an insert have failed, the cart is still there and no row was written
C18_BothStepsFailed ==
    /\ {hist.failed[i].step : i \in DOMAIN hist.failed} = {"read", "insert"}
    /\ pc[Till] = "idle"
    /\ cart[Till] # <<>>
    /\ sales = {}
    /\ sale_items = <<>>
    /\ products[<<"p1">>].stock = InitStock

\* C19: when the insert into sale_items fails, the sales row written before
\* stays in the store with zero items, and the failure is logged as an error.
C19_ItemsFailureIsLogged ==
    [][(Len(hist'.failed) > Len(hist.failed) /\ NewFailure.step = "items") =>
          /\ sales' = sales
          /\ \E s \in sales' : s.id = call[NewFailure.client].saleId /\ ItemsOf(s.id) = <<>>
          /\ NewFailure.logged]_vars

\* C20: the sales list of every client is sorted by timestamp, newest first,
\* whatever INSERT and UPDATE events it has handled and in whatever order.
C20_ListSortedDescending ==
    \A c \in Clients : \A i, j \in DOMAIN clientSales[c] :
       i < j => clientSales[c][i].timestamp >= clientSales[c][j].timestamp

\* C21: a client that missed a pushed change does not stay behind: a scheduled
\* full poll brings its sales list up to the store's, so that the list of the
\* client that follows the feed comes to hold every sale of the store.
C21_MissedPushIsHealed ==
    (Board \in hist.missed) ~>
       ({clientSales[Board][i].id : i \in DOMAIN clientSales[Board]} = {s.id : s \in sales})

\* C22: marking a sale as done leaves the products table as it was, whatever
\* the status of the sale in the store.
C22_CompleteSaleKeepsStock ==
    [][\A c \in Clients : \A id \in 1..MaxSales :
          handleUpdateSaleStatus(c, id) => products' = products]_vars

\* a sale of catalog products was marked as done after its stock was written
C22_ProductSaleCompleted ==
    /\ pc[Till] = "idle"
    /\ \E s \in sales :
          /\ s.status = "Completed"
          /\ ItemsOf(s.id) # <<>>
          /\ \A i \in DOMAIN ItemsOf(s.id) : ItemsOf(s.id)[i].id \in Products
    /\ products[<<"p1">>].stock < InitStock

\* a notes write leaves the status of every row of the store as it was
NotesKeepStoreStatus ==
    \A c \in Clients : \A id \in 1..MaxSales : \A n \in AdminNotes :
       handleUpdateSaleNotes(c, id, n) =>
          \A s \in sales : \A t \in sales' : t.id = s.id => t.status = s.status

\* C23: a notes write leaves the status of the sale unchanged in the store,
\* and applying its UPDATE event leaves the status unchanged in the records
\* of the client.
C23_NotesLeaveStatus ==
    [][/\ NotesKeepStoreStatus
       /\ \A c \in Clients :
             (onSaleUpdate(c) /\ Head(feed[c]).new \in hist.noted) =>
                \A i \in DOMAIN clientSales[c] :
                   clientSales'[c][i].status = clientSales[c][i].status]_vars

\* C23 as the code has it: a notes write leaves the status unchanged in the
\* store; applying its UPDATE event gives the client's record of that sale
\* the status the store had at the write, never moves a Completed record
\* back, and leaves the records of other sales alone.
C23_NotesCarryStoreStatus ==
    [][/\ NotesKeepStoreStatus
       /\ \A c \in Clients :
             (onSaleUpdate(c) /\ Head(feed[c]).new \in hist.noted) =>
                \A i \in DOMAIN clientSales[c] :
                   /\ clientSales'[c][i].id = Head(feed[c]).new.id =>
                         clientSales'[c][i].status = Head(feed[c]).new.status
                   /\ clientSales'[c][i].id # Head(feed[c]).new.id =>
                         clientSales'[c][i].status = clientSales[c][i].status
                   /\ clientSales[c][i].status = "Completed" =>
                         clientSales'[c][i].status = "Completed"]_vars

\* a client that follows the feed has applied the UPDATE event of a notes
\* write, and holds the sale as Completed with the note
C23_NotesApplied ==
    /\ hist.applied
    /\ feed[Till] = <<>>
    /\ \E i \in DOMAIN clientSales[Till] :
          /\ clientSales[Till][i].admin_notes \in AdminNotes
          /\ clientSales[Till][i].status = "Completed"

\* the sale_items rows of one sale in a sale_items table
RowsOf(table, id) == SelectSeq(table, LAMBDA r : r.sale_id = id)

\* C24: once the items of a sale are written, no step changes them, nor the
\* total or the order_number of the sale, in the store; and the UPDATE handler
\* changes none of them in the records of a client.
C24_SaleSnapshotIsImmutable ==
    [][/\ \A s \in sales : \A t \in sales' :
             (t.id = s.id /\ RowsOf(sale_items, s.id) # <<>>) =>
                /\ RowsOf(sale_items', s.id) = RowsOf(sale_items, s.id)
                /\ t.total = s.total
                /\ t.order_number = s.order_number
       /\ \A c \in Clients : onSaleUpdate(c) =>
             /\ Len(clientSales'[c]) = Len(clientSales[c])
             /\ \A i \in DOMAIN clientSales[c] :
                   /\ clientSales'[c][i].id = clientSales[c][i].id
                   /\ clientSales'[c][i].items = clientSales[c][i].items
                   /\ clientSales'[c][i].total = clientSales[c][i].total
                   /\ clientSales'[c][i].order_number = clientSales[c][i].order_number]_vars

\* a sale was marked as done and annotated, the client has applied the
\* updates, and the product sold was renamed or deleted since
C24_SoldProductChanged ==
    \E s \in sales :
       /\ s.status = "Completed" /\ s.admin_notes \in AdminNotes
       /\ hist.applied
       /\ ItemsOf(s.id) # <<>>
       /\ \A i \in DOMAIN ItemsOf(s.id) :
             LET item == ItemsOf(s.id)[i]
             IN  item.id \notin DOMAIN products \/ products[item.id].name # item.name

\* C25: every store request that fails in handleAddSale, handleUpdateSaleStatus,
\* handleUpdateSaleNotes or handleResetHistory is caught and shown to the user
\* as a notification.
C25_EveryFailureIsNotified ==
    \A i \in DOMAIN hist.failed : hist.failed[i].toast

\* C26: the 'now out of stock' notification of a sale is shown for a product
\* exactly when the stock write of this sale takes the product's stock in the
\* store from above zero to zero or below.
C26_OutOfStockToastIsExact ==
    [][\A c \in Clients : \A u \in Todo(c) :
          (handleAddSale_stock(c, u) /\ u.id \in DOMAIN products) =>
             (u.toast <=> (products[u.id].stock > 0 /\ products'[u.id].stock <= 0))]_vars

\* the call made by handleConfirmPayment of client c ends without a sale
CheckoutFails(c) ==
    \/ pos[c].modal /\ handleAddSale_readError(c)
    \/ pos[c].processing /\ handleAddSale_insertError(c)
    \/ pos[c].processing /\ handleAddSale_insert(c) /\ pc'[c] = "idle"
    \/ pos[c].processing /\ handleAddSale_throws(c)

\* the call made by handleConfirmPayment of client c returns a sale
CheckoutSucceeds(c) ==
    /\ pos[c].processing /\ pc'[c] = "idle"
    /\ \/ handleAddSale_items(c)
       \/ \E u \in Todo(c) : handleAddSale_stock(c, u)

\* C27: when the call of handleConfirmPayment ends without a sale, the cart
\* and the notes are as before and the payment modal is closed; the cart and
\* the notes are cleared when it returns a sale, and only then; in every case
\* the processing flag is false afterwards.
C27_CartKeptOnFailure ==
    [][\A c \in Clients :
          /\ CheckoutFails(c) =>
                /\ cart'[c] = cart[c]
                /\ pos'[c].userNotes = pos[c].userNotes
                /\ ~pos'[c].modal
                /\ ~pos'[c].processing
          /\ CheckoutSucceeds(c) =>
                /\ cart'[c] = <<>>
                /\ pos'[c].userNotes = NoNotes
                /\ ~pos'[c].processing
          /\ (pos[c].processing /\ ~CheckoutSucceeds(c)) =>
                (cart'[c] = cart[c] /\ pos'[c].userNotes = pos[c].userNotes)]_vars

\* a checkout of a cart with a note has ended without a sale: the cart and
\* the note are still there, the modal is closed and nothing is processing
C27_CheckoutFailed ==
    /\ hist.lost
    /\ pc[Till] = "idle"
    /\ ~pos[Till].modal /\ ~pos[Till].processing /\ ~pos[Till].completed
    /\ cart[Till] # <<>>
    /\ pos[Till].userNotes \in PosNotes

\* C28: the answer of a logout poll leaves alone a session that is not older
\* than the logout marker (and any session when there is no marker).
C28_FreshSessionSurvivesPoll ==
    [][\A c \in Clients : \A s \in auth.poll[c] :
          (checkGlobalLogout_result(c, s)
             /\ \A cur \in auth.session[c] : ~isRevoked(auth.marker, cur)) =>
                auth'.session[c] = auth.session[c]]_vars

\* C29: with no session the login view is rendered; for a user the rendered
\* view is never dashboard, history or inventory: when currentView holds one
\* of them the POS view is rendered, and renderView sets currentView to 'pos'.
C29_RoleGating ==
    /\ [](\A c \in Clients :
            /\ auth.session[c] = {} => Rendered(c) = "login"
            /\ \A s \in auth.session[c] : s.role = "user" =>
                  /\ Rendered(c) \notin adminViews
                  /\ auth.view[c] \in adminViews => Rendered(c) = "pos")
    /\ [][\A c \in Clients : renderView(c) => auth'.view[c] = "pos"]_vars

\* a user is logged in while currentView still holds an admin view
C29_UserOnAdminView ==
    \E c \in Clients :
       /\ \E s \in auth.session[c] : s.role = "user"
       /\ auth.view[c] \in adminViews

\* C30: every line of the cart has a quantity of at least 1 and at most the
\* stock of its product as the client knows it.
C30_CartQuantityWithinStock ==
    \A c \in Clients : \A i \in DOMAIN cart[c] :
       /\ cart[c][i].quantity >= 1
       /\ cart[c][i].id \in DOMAIN clientProducts[c] =>
             cart[c][i].quantity <= clientProducts[c][cart[c][i].id].stock
====
